---------------------------- MODULE Spec2Model ----------------------------
(***************************************************************************)
(* drone-riot-conv: the /convert webhook of src/main.rs.                   *)
(*                                                                         *)
(* A text is a sequence of characters.  The characters of the model are    *)
(* "\n", "-", ":" (standing for the two characters ": " that end a mapping *)
(* key), the ten digits, and whole words ("kind", "build", ...) that stand *)
(* for runs of letters the program never looks into.                       *)
(*                                                                         *)
(* serde_yaml is modelled on the YAML the inputs use: an optional document *)
(* start line "---", blank lines, and block-mapping lines "key: scalar".   *)
(***************************************************************************)
EXTENDS Integers, Sequences, FiniteSets, TLC

\* ------------------------------------------------------------------ bounds
\* Most sub-documents of one request body (small parallelism values).
MaxDocs == 3
\* Most sub-documents of a request body that fans out to PARALLELISM_MAX copies.
MaxBigDocs == 2
\* Number of requests served concurrently in SpecConc.
NumRequests == 2

\* --------------------------------------------------------- program constants
PARALLELISM_MAX == 64

NL == "\n"
Dash == "-"
Colon == ":"
Digit == <<"0", "1", "2", "3", "4", "5", "6", "7", "8", "9">>
Digits == {Digit[d] : d \in 1..10}

\* The literal the handler splits on: "\n---\n".
Separator == <<NL, Dash, Dash, Dash, NL>>

\* ------------------------------------------------------------ text helpers
RECURSIVE Concat(_)
\* Concatenation of a sequence of texts.
Concat(texts) ==
  IF texts = <<>> THEN <<>> ELSE Head(texts) \o Concat(Tail(texts))

RECURSIVE Join(_, _)
\* The texts with sep between each two neighbours.
Join(texts, sep) ==
  IF texts = <<>> THEN <<>>
  ELSE IF Len(texts) = 1 THEN texts[1]
  ELSE texts[1] \o sep \o Join(Tail(texts), sep)

\* Whether pat occurs in text at position p.
MatchAt(text, pat, p) ==
  /\ p + Len(pat) - 1 <= Len(text)
  /\ SubSeq(text, p, p + Len(pat) - 1) = pat

RECURSIVE FindFrom(_, _, _)
\* Position of the first occurrence of pat in text at or after p, 0 if
\* there is none.
FindFrom(text, pat, p) ==
  IF p + Len(pat) - 1 > Len(text) THEN 0
  ELSE IF MatchAt(text, pat, p) THEN p
  ELSE FindFrom(text, pat, p + 1)

\* Position of the first occurrence of pat in text, 0 if there is none.
Find(text, pat) == FindFrom(text, pat, 1)

RECURSIVE SplitOverlapping(_, _)
\* A split whose next search starts on the last character of the match, so
\* that two separators sharing a line break both count.
SplitOverlapping(text, pat) ==
  LET p == Find(text, pat)
  IN IF p = 0 THEN <<text>>
     ELSE LET rest == SplitOverlapping(SubSeq(text, p + Len(pat) - 1, Len(text)), pat)
          IN <<SubSeq(text, 1, p - 1)>>
             \o (IF rest[1] = <<>> THEN rest ELSE <<Tail(rest[1])>> \o Tail(rest))

RECURSIVE Split(_, _)
\* str::split: the pieces between the occurrences of pat, found left to
\* right, each search resuming after the previous match; a text without
\* pat (the empty text too) is one piece.
Split(text, pat) ==
  LET p == Find(text, pat)
  IN IF p = 0 THEN <<text>>
     ELSE <<SubSeq(text, 1, p - 1)>>
          \o Split(SubSeq(text, p + Len(pat), Len(text)), pat)

RECURSIVE Decimal(_)
\* format!("{}", k) of an unsigned integer.
Decimal(k) ==
  IF k < 10 THEN <<Digit[k + 1]>>
  ELSE Decimal(k \div 10) \o <<Digit[(k % 10) + 1]>>

DigitValue(c) == CHOOSE d \in 0..9 : Digit[d + 1] = c

RECURSIVE ParseUnsigned(_)
\* The value of a run of digits.
ParseUnsigned(ds) ==
  IF ds = <<>> THEN 0
  ELSE 10 * ParseUnsigned(SubSeq(ds, 1, Len(ds) - 1)) + DigitValue(ds[Len(ds)])

IsUnsigned(v) == v # <<>> /\ \A j \in 1..Len(v) : v[j] \in Digits

\* --------------------------------------------------------------- Pipeline
\* Option<T>: <<>> is None, <<x>> is Some(x).
None == <<>>
Some(x) == <<x>>

\* The named fields of drone::Pipeline; every other key lands in extra.
KnownKeys == {"kind", "name", "parallelism", "type"}
RequiredKeys == {"kind", "name", "type"}

DecodeError == [ok |-> FALSE]

\* A mapping line is key, ":", and a non-empty plain scalar on one line.
IsEntry(line) ==
  /\ Len(line) >= 3
  /\ line[1] \notin {NL, Dash, Colon} \cup Digits
  /\ line[2] = Colon
  /\ \A j \in 3..Len(line) : line[j] # Colon
EntryKey(line) == line[1]
EntryValue(line) == SubSeq(line, 3, Len(line))

RECURSIVE Lines(_)
\* The lines of a text, without their line breaks.
Lines(text) ==
  LET p == Find(text, <<NL>>)
  IN IF p = 0 THEN <<text>>
     ELSE <<SubSeq(text, 1, p - 1)>> \o Lines(SubSeq(text, p + 1, Len(text)))

\* The lines of a YAML document that carry content: the document start
\* marker, when it is the first line, and blank lines carry none.
ContentLines(doc) ==
  LET lines == Lines(doc)
      body == IF lines[1] = <<Dash, Dash, Dash>> THEN Tail(lines) ELSE lines
  IN SelectSeq(body, LAMBDA l : l # <<>>)

\* The value of key among the entries, None when there is no such entry.
Lookup(entries, key) ==
  LET at == {j \in 1..Len(entries) : EntryKey(entries[j]) = key}
  IN IF at = {} THEN None ELSE Some(EntryValue(entries[CHOOSE j \in at : TRUE]))

RECURSIVE InsertAll(_, _)
\* IndexMap filled entry by entry: a new key is appended, a key already
\* there keeps its place and takes the new value.
InsertAll(map, entries) ==
  IF entries = <<>> THEN map
  ELSE LET k == EntryKey(Head(entries))
           v == EntryValue(Head(entries))
           at == {j \in 1..Len(map) : map[j][1] = k}
       IN InsertAll(IF at = {} THEN Append(map, <<k, v>>)
                    ELSE [map EXCEPT ![CHOOSE j \in at : TRUE] = <<k, v>>],
                    Tail(entries))

\* #[serde(flatten)] extra: the entries no named field takes, in source order.
Extra(entries) ==
  InsertAll(<<>>, SelectSeq(entries, LAMBDA l : EntryKey(l) \notin KnownKeys))

\* Decode that lets a missing kind default to the empty string.
DecodeKindOptional(doc) ==
  LET entries == ContentLines(doc)
      count(key) == Cardinality({j \in 1..Len(entries) : EntryKey(entries[j]) = key})
  IN IF \/ entries = <<>>
        \/ \E j \in 1..Len(entries) : ~IsEntry(entries[j])
        \/ \E key \in KnownKeys : count(key) > 1
        \/ \E key \in {"name", "type"} : count(key) = 0
        \/ \E key \in RequiredKeys :
             count(key) = 1 /\ IsUnsigned(Lookup(entries, key)[1])
        \/ /\ count("parallelism") = 1
           /\ ~IsUnsigned(Lookup(entries, "parallelism")[1])
     THEN DecodeError
     ELSE [ok |-> TRUE,
           kind |-> IF count("kind") = 0 THEN <<>> ELSE Lookup(entries, "kind")[1],
           name |-> Lookup(entries, "name")[1],
           parallelism |->
             IF count("parallelism") = 0 THEN None
             ELSE Some(ParseUnsigned(Lookup(entries, "parallelism")[1])),
           type_ |-> Lookup(entries, "type")[1],
           extra |-> Extra(entries)]

\* serde_yaml::from_str::<drone::Pipeline>: the document must be a mapping
\* that holds kind, name and type once each as strings, and parallelism at
\* most once as an unsigned integer; anything else is an error.
Decode(doc) ==
  LET entries == ContentLines(doc)
      count(key) == Cardinality({j \in 1..Len(entries) : EntryKey(entries[j]) = key})
  IN IF \/ entries = <<>>
        \/ \E j \in 1..Len(entries) : ~IsEntry(entries[j])
        \/ \E key \in KnownKeys : count(key) > 1
        \/ \E key \in RequiredKeys : count(key) = 0
        \/ \E key \in RequiredKeys : IsUnsigned(Lookup(entries, key)[1])
        \/ /\ count("parallelism") = 1
           /\ ~IsUnsigned(Lookup(entries, "parallelism")[1])
     THEN DecodeError
     ELSE [ok |-> TRUE,
           kind |-> Lookup(entries, "kind")[1],
           name |-> Lookup(entries, "name")[1],
           parallelism |->
             IF count("parallelism") = 0 THEN None
             ELSE Some(ParseUnsigned(Lookup(entries, "parallelism")[1])),
           type_ |-> Lookup(entries, "type")[1],
           extra |-> Extra(entries)]

\* Scalars the YAML emitter cannot write; a record holding one fails to
\* serialize.
Unencodable == {"<unencodable>"}

EncodeFails(p) ==
  \E j \in 1..Len(p.extra) : \E m \in 1..Len(p.extra[j][2]) :
    p.extra[j][2][m] \in Unencodable

EntryLine(key, v) == <<key, Colon>> \o v

\* Field lines of a Pipeline in serialization order: the struct's fields in
\* declaration order, parallelism skipped when None, then the flattened
\* extra entries in map order.
FieldLines(p) ==
  <<EntryLine("kind", p.kind), EntryLine("name", p.name)>>
  \o (IF p.parallelism = None THEN <<>>
      ELSE <<EntryLine("parallelism", Decimal(p.parallelism[1]))>>)
  \o <<EntryLine("type", p.type_)>>
  \o [j \in 1..Len(p.extra) |-> EntryLine(p.extra[j][1], p.extra[j][2])]

\* serde_yaml::to_string: the document start marker and the field lines,
\* without a newline after the last one; Err when the record cannot be
\* written.
ToYaml(p) ==
  IF EncodeFails(p) THEN [ok |-> FALSE, text |-> <<>>]
  ELSE [ok |-> TRUE,
        text |-> <<Dash, Dash, Dash, NL>> \o Join(FieldLines(p), <<NL>>)]

\* ------------------------------------------------------------ HTTP boundary
\* Causes a warp rejection can carry besides "not found".
Causes == {"BodyDeserializeError", "Error", "MethodNotAllowed", "UnsupportedMediaType"}

NotFound == [not_found |-> TRUE, causes |-> {}]
Rejected(cause) == [not_found |-> FALSE, causes |-> {cause}]
NoRejection == [not_found |-> FALSE, causes |-> {}]

ErrorResponse(code, message) == [code |-> code, json |-> [message |-> message]]

\* A handler without the MethodNotAllowed test.
handle_rejectionNoMethod(err) ==
  IF err.not_found THEN ErrorResponse(404, "Not Found")
  ELSE IF "BodyDeserializeError" \in err.causes THEN ErrorResponse(400, "Invalid Body")
  ELSE ErrorResponse(500, "Internal Server Error")

\* error::handle_rejection: the first test that applies decides.
handle_rejection(err) ==
  IF err.not_found THEN ErrorResponse(404, "Not Found")
  ELSE IF "BodyDeserializeError" \in err.causes THEN ErrorResponse(400, "Invalid Body")
  ELSE IF "Error" \in err.causes THEN ErrorResponse(500, "Internal Server Error")
  ELSE IF "MethodNotAllowed" \in err.causes THEN ErrorResponse(405, "Method Not Allowed")
  ELSE ErrorResponse(500, "Internal Server Error")

\* The filters of main in order: post(), path("convert"), body::json().
\* The first that refuses decides the rejection; NoRejection hands the
\* decoded drone::Request to convert_handler.
Filter(h) ==
  IF h.method # "POST" THEN Rejected("MethodNotAllowed")
  ELSE IF h.path # "convert" THEN NotFound
  ELSE IF h.content_type # "application/json" THEN Rejected("UnsupportedMediaType")
  ELSE IF ~h.json THEN Rejected("BodyDeserializeError")
  ELSE NoRejection

\* ------------------------------------------------------------------- inputs
Doc(lines) == Join(lines, <<NL>>)

\* name before kind, extra keys between the named ones, parallelism = 2.
DocBuild ==
  Doc(<<EntryLine("name", <<"build">>), EntryLine("steps", <<"test">>),
        EntryLine("kind", <<"pipeline">>), EntryLine("parallelism", <<"2">>),
        EntryLine("image", <<"rust">>), EntryLine("type", <<"docker">>)>>)
\* Decodable, no parallelism, blank line at the end.
DocDeploy ==
  Doc(<<EntryLine("kind", <<"pipeline">>), EntryLine("type", <<"docker">>),
        EntryLine("name", <<"deploy">>), EntryLine("image", <<"rust">>), <<>>>>)
\* Not a mapping.
DocGarbage == <<"garbage">>
\* Drone 0.8 syntax: no kind (name and type present, parallelism too).
DocNoKind ==
  Doc(<<EntryLine("name", <<"build">>), EntryLine("type", <<"docker">>),
        EntryLine("parallelism", <<"2">>)>>)
DocZero ==
  Doc(<<EntryLine("kind", <<"pipeline">>), EntryLine("name", <<"build">>),
        EntryLine("type", <<"docker">>), EntryLine("parallelism", <<"0">>)>>)
DocOne ==
  Doc(<<EntryLine("kind", <<"pipeline">>), EntryLine("name", <<"test">>),
        EntryLine("type", <<"docker">>), EntryLine("parallelism", <<"1">>)>>)
\* Decodable, parallelism = 2, holds a scalar that cannot be re-encoded.
DocBad ==
  Doc(<<EntryLine("kind", <<"pipeline">>), EntryLine("name", <<"build">>),
        EntryLine("type", <<"docker">>), EntryLine("parallelism", <<"2">>),
        EntryLine("image", <<"<unencodable>">>)>>)
\* Text that ends in "\n---": joined to a next piece the separators overlap.
DocTrailingMarker == <<"garbage", NL, Dash, Dash, Dash>>
DocEmpty == <<>>

DocWith(parallelism) ==
  Doc(<<EntryLine("kind", <<"pipeline">>), EntryLine("name", <<"build">>),
        EntryLine("parallelism", parallelism), EntryLine("type", <<"docker">>)>>)

SmallPool ==
  {DocBuild, DocDeploy, DocGarbage, DocNoKind, DocZero, DocOne, DocBad,
   DocTrailingMarker, DocEmpty}
BigPool ==
  {DocWith(<<"6", "4">>), DocWith(<<"6", "5">>), DocWith(<<"1", "0", "0", "0">>),
   DocBuild}

SeqsUpTo(S, k) == UNION {[1..m -> S] : m \in 0..k}

\* Request bodies: pieces joined by the separator.
Inputs ==
  {Join(ds, Separator) : ds \in SeqsUpTo(SmallPool, MaxDocs)}
  \cup {Join(ds, Separator) : ds \in SeqsUpTo(BigPool, MaxBigDocs)}

Post(data) ==
  [method |-> "POST", path |-> "convert", content_type |-> "application/json",
   json |-> TRUE, data |-> data]

\* Requests the filters refuse.
Refused ==
  {[Post(<<>>) EXCEPT !.method = "GET"],
   [Post(<<>>) EXCEPT !.method = "GET", !.path = "other"],
   [Post(<<>>) EXCEPT !.path = "other"],
   [Post(<<>>) EXCEPT !.content_type = "text/plain"],
   [Post(<<>>) EXCEPT !.json = FALSE]}

HttpRequests == {Post(data) : data \in Inputs} \cup Refused

ConcInputs ==
  {DocBuild, DocOne, DocBad,
   Join(<<DocGarbage, DocDeploy>>, Separator),
   Join(<<DocOne, DocNoKind>>, Separator)}
ConcRequests == {Post(data) : data \in ConcInputs} \cup Refused

\* -------------------------------------------------------------------- state
VARIABLES
  http,     \* the HTTP request each connection carries
  pc,       \* where each request is: "route", "start", "loop", "fan",
            \* "rejected", "replied"
  docs,     \* convert_handler: the pieces request.config.data.split yields
  n,        \* convert_handler: enumerate() index of the piece at hand
  parsed,   \* convert_handler: the decoded Pipeline of the piece at hand
  value,    \* convert_handler: the clamped parallelism
  i,        \* convert_handler: the inner loop's n, the instance number
  result,   \* convert_handler: the result String, kept as the list of the
            \* texts appended to it, each with the number of the piece whose
            \* iteration appended it; the String is their concatenation
  err,      \* the Rejection handed to recover
  reply     \* the HTTP response

vars == <<http, pc, docs, n, parsed, value, i, result, err, reply>>

Requests == DOMAIN pc

NoReply == [code |-> 0, json |-> [none |-> TRUE]]

\* The String the appended texts make up.
ResultText(chunks) == Concat([j \in 1..Len(chunks) |-> chunks[j].text])

InitWith(hs) ==
  /\ http = hs
  /\ pc = [r \in DOMAIN hs |-> "route"]
  /\ docs = [r \in DOMAIN hs |-> <<>>]
  /\ n = [r \in DOMAIN hs |-> 0]
  /\ parsed = [r \in DOMAIN hs |-> DecodeError]
  /\ value = [r \in DOMAIN hs |-> 0]
  /\ i = [r \in DOMAIN hs |-> 0]
  /\ result = [r \in DOMAIN hs |-> <<>>]
  /\ err = [r \in DOMAIN hs |-> NoRejection]
  /\ reply = [r \in DOMAIN hs |-> NoReply]

Init == \E hs \in [1..1 -> HttpRequests] : InitWith(hs)

InitConc == \E hs \in [1..NumRequests -> ConcRequests] : InitWith(hs)

\* ------------------------------------------------------------------ actions
\* A result buffer shared by all requests in flight.
PushShared(r, text) ==
  [q \in DOMAIN result |-> Append(result[q], [doc |-> n[r] + 1, text |-> text])]

\* Text put in front of the result.
PushFront(r, text) ==
  [result EXCEPT ![r] = <<[doc |-> n[r] + 1, text |-> text]>> \o @]

\* result += text, in the iteration of piece number n + 1.
Push(r, text) ==
  [result EXCEPT ![r] = Append(@, [doc |-> n[r] + 1, text |-> text])]

\* main: the filter chain accepts the request or rejects it.
Route(r) ==
  /\ pc[r] = "route"
  /\ LET rej == Filter(http[r])
     IN IF rej = NoRejection
        THEN pc' = [pc EXCEPT ![r] = "start"] /\ err' = err
        ELSE pc' = [pc EXCEPT ![r] = "rejected"] /\ err' = [err EXCEPT ![r] = rej]
  /\ UNCHANGED <<http, docs, n, parsed, value, i, result, reply>>

\* convert_handler, up to the loop: an empty result, the split iterator.
Start(r) ==
  /\ pc[r] = "start"
  /\ docs' = [docs EXCEPT ![r] = Split(http[r].data, Separator)]
  /\ n' = [n EXCEPT ![r] = 0]
  /\ result' = [result EXCEPT ![r] = <<>>]
  /\ pc' = [pc EXCEPT ![r] = "loop"]
  /\ UNCHANGED <<http, parsed, value, i, err, reply>>

AtDoc(r) == pc[r] = "loop" /\ n[r] < Len(docs[r])
doc(r) == docs[r][n[r] + 1]

\* The piece does not decode: it is passed through.
PassThroughUndecodable(r) ==
  /\ AtDoc(r)
  /\ ~Decode(doc(r)).ok
  /\ result' = Push(r, doc(r))
  /\ n' = [n EXCEPT ![r] = @ + 1]
  /\ UNCHANGED <<http, pc, docs, parsed, value, i, err, reply>>

\* A pass-through that appends the re-encoded record, not the text.
PassThroughPlainReencoded(r) ==
  /\ AtDoc(r)
  /\ Decode(doc(r)).ok
  /\ Decode(doc(r)).parallelism = None
  /\ parsed' = [parsed EXCEPT ![r] = Decode(doc(r))]
  /\ result' = Push(r, ToYaml(Decode(doc(r))).text)
  /\ n' = [n EXCEPT ![r] = @ + 1]
  /\ UNCHANGED <<http, pc, docs, value, i, err, reply>>

\* The piece decodes and has no parallelism: it is passed through.
PassThroughPlain(r) ==
  /\ AtDoc(r)
  /\ Decode(doc(r)).ok
  /\ Decode(doc(r)).parallelism = None
  /\ parsed' = [parsed EXCEPT ![r] = Decode(doc(r))]
  /\ result' = Push(r, doc(r))
  /\ n' = [n EXCEPT ![r] = @ + 1]
  /\ UNCHANGED <<http, pc, docs, value, i, err, reply>>

\* No clamping.
ClampNever(v) == v

\* The parallelism the fan-out loop runs to.
Clamp(v) == IF v > PARALLELISM_MAX THEN PARALLELISM_MAX ELSE v

\* A fan-out whose instance numbers start at 0.
FanOutFromZero(r) ==
  /\ AtDoc(r)
  /\ Decode(doc(r)).ok
  /\ Decode(doc(r)).parallelism # None
  /\ parsed' = [parsed EXCEPT ![r] = Decode(doc(r))]
  /\ value' = [value EXCEPT ![r] = Clamp(Decode(doc(r)).parallelism[1])]
  /\ i' = [i EXCEPT ![r] = 0]
  /\ pc' = [pc EXCEPT ![r] = "fan"]
  /\ UNCHANGED <<http, docs, n, result, err, reply>>

\* The piece decodes with parallelism: clamp it and enter the inner loop.
FanOut(r) ==
  /\ AtDoc(r)
  /\ Decode(doc(r)).ok
  /\ Decode(doc(r)).parallelism # None
  /\ parsed' = [parsed EXCEPT ![r] = Decode(doc(r))]
  /\ value' = [value EXCEPT ![r] = Clamp(Decode(doc(r)).parallelism[1])]
  /\ i' = [i EXCEPT ![r] = 1]
  /\ pc' = [pc EXCEPT ![r] = "fan"]
  /\ UNCHANGED <<http, docs, n, result, err, reply>>

\* A clone that keeps the parallelism field.
InstanceKeepsParallelism(p, k) ==
  [p EXCEPT !.name = @ \o <<Dash>> \o Decimal(k)]

\* The clone of parsed the inner loop serializes for instance number k.
Instance(p, k) ==
  [p EXCEPT !.name = @ \o <<Dash>> \o Decimal(k), !.parallelism = None]

\* One round of the inner loop: the instance is appended with a newline.
Emit(r) ==
  /\ pc[r] = "fan"
  /\ i[r] <= value[r]
  /\ ToYaml(Instance(parsed[r], i[r])).ok
  /\ result' = Push(r, ToYaml(Instance(parsed[r], i[r])).text \o <<NL>>)
  /\ i' = [i EXCEPT ![r] = @ + 1]
  /\ UNCHANGED <<http, pc, docs, n, parsed, value, err, reply>>

\* A failed to_string that is skipped: the loop goes on with the next instance.
EmitFailsSkipped(r) ==
  /\ pc[r] = "fan"
  /\ i[r] <= value[r]
  /\ ~ToYaml(Instance(parsed[r], i[r])).ok
  /\ i' = [i EXCEPT ![r] = @ + 1]
  /\ UNCHANGED <<http, pc, docs, n, parsed, value, result, err, reply>>

\* One round of the inner loop: to_string fails and ? returns the rejection.
EmitFails(r) ==
  /\ pc[r] = "fan"
  /\ i[r] <= value[r]
  /\ ~ToYaml(Instance(parsed[r], i[r])).ok
  /\ err' = [err EXCEPT ![r] = Rejected("Error")]
  /\ pc' = [pc EXCEPT ![r] = "rejected"]
  /\ UNCHANGED <<http, docs, n, parsed, value, i, result, reply>>

\* The inner loop is over: on to the next piece.
FanOutDone(r) ==
  /\ pc[r] = "fan"
  /\ i[r] > value[r]
  /\ n' = [n EXCEPT ![r] = @ + 1]
  /\ pc' = [pc EXCEPT ![r] = "loop"]
  /\ UNCHANGED <<http, docs, parsed, value, i, result, err, reply>>

\* No piece is left: the result is returned as {data: result}.
Finish(r) ==
  /\ pc[r] = "loop"
  /\ n[r] = Len(docs[r])
  /\ reply' = [reply EXCEPT ![r] = [code |-> 200, json |-> [data |-> ResultText(result[r])]]]
  /\ pc' = [pc EXCEPT ![r] = "replied"]
  /\ UNCHANGED <<http, docs, n, parsed, value, i, result, err>>

\* recover: handle_rejection answers the rejection.
Recover(r) ==
  /\ pc[r] = "rejected"
  /\ reply' = [reply EXCEPT ![r] = handle_rejection(err[r])]
  /\ pc' = [pc EXCEPT ![r] = "replied"]
  /\ UNCHANGED <<http, docs, n, parsed, value, i, result, err>>

Next ==
  \/ \E r \in Requests : Route(r)
  \/ \E r \in Requests : Start(r)
  \/ \E r \in Requests : PassThroughUndecodable(r)
  \/ \E r \in Requests : PassThroughPlain(r)
  \/ \E r \in Requests : FanOut(r)
  \/ \E r \in Requests : Emit(r)
  \/ \E r \in Requests : EmitFails(r)
  \/ \E r \in Requests : FanOutDone(r)
  \/ \E r \in Requests : Finish(r)
  \/ \E r \in Requests : Recover(r)

\* One request at a time.
Spec == Init /\ [][Next]_vars

\* NumRequests requests served concurrently, their steps interleaved.
SpecConc == InitConc /\ [][Next]_vars

\* ------------------------------------------- the handler run to completion
RECURSIVE Instances(_, _, _)
\* The inner loop from instance k to last: the texts it appends, and
\* whether it ran through (ok) or stopped at a failed to_string.
Instances(p, k, last) ==
  IF k > last THEN [ok |-> TRUE, texts |-> <<>>]
  ELSE LET y == ToYaml(Instance(p, k))
       IN IF ~y.ok THEN [ok |-> FALSE, texts |-> <<>>]
          ELSE LET rest == Instances(p, k + 1, last)
               IN [ok |-> rest.ok, texts |-> <<y.text \o <<NL>>>> \o rest.texts]

\* One iteration of the outer loop on piece d.
Expand(d) ==
  LET p == Decode(d)
  IN IF ~p.ok THEN [ok |-> TRUE, texts |-> <<d>>]
     ELSE IF p.parallelism = None THEN [ok |-> TRUE, texts |-> <<d>>]
     ELSE Instances(p, 1, Clamp(p.parallelism[1]))

RECURSIVE Run(_, _)
\* The outer loop from piece k on.
Run(pieces, k) ==
  IF k > Len(pieces) THEN [ok |-> TRUE, chunks |-> <<>>]
  ELSE LET e == Expand(pieces[k])
           tagged == [j \in 1..Len(e.texts) |-> [doc |-> k, text |-> e.texts[j]]]
       IN IF ~e.ok THEN [ok |-> FALSE, chunks |-> tagged]
          ELSE LET rest == Run(pieces, k + 1)
               IN [ok |-> rest.ok, chunks |-> tagged \o rest.chunks]

\* convert_handler on a request body, run alone from entry to return.
convert_handler(data) == Run(Split(data, Separator), 1)

\* The response to an HTTP request served alone.
Response(h) ==
  IF Filter(h) # NoRejection THEN handle_rejection(Filter(h))
  ELSE LET solo == convert_handler(h.data)
       IN IF solo.ok
          THEN [code |-> 200, json |-> [data |-> ResultText(solo.chunks)]]
          ELSE handle_rejection(Rejected("Error"))

\* ---------------------------------------------------- vocabulary of claims
Range(s) == {s[j] : j \in 1..Len(s)}

IsPrefix(s, t) == Len(s) <= Len(t) /\ SubSeq(t, 1, Len(s)) = s

\* The texts appended to r's result in the iteration of piece k.
ChunksOf(r, k) ==
  LET cs == SelectSeq(result[r], LAMBDA c : c.doc = k)
  IN [j \in 1..Len(cs) |-> cs[j].text]

\* The piece decodes with parallelism = v.
Fans(d, v) == Decode(d).ok /\ Decode(d).parallelism = Some(v)

RepliedOk(r) == pc[r] = "replied" /\ reply[r].code = 200

\* Keys of a text's mapping lines that are not named fields, in text order.
ExtraKeysOf(text) ==
  LET ls == SelectSeq(Lines(text),
                      LAMBDA l : Len(l) >= 2 /\ l[2] = Colon /\ l[1] \notin KnownKeys)
  IN [j \in 1..Len(ls) |-> ls[j][1]]

\* name is orig, "-", and the decimal numeral of j.
NameIs(name, orig, j) ==
  /\ Len(name) > Len(orig) + 1
  /\ SubSeq(name, 1, Len(orig)) = orig
  /\ name[Len(orig) + 1] = Dash
  /\ LET suffix == SubSeq(name, Len(orig) + 2, Len(name))
     IN IsUnsigned(suffix) /\ suffix[1] # "0" /\ ParseUnsigned(suffix) = j

\* text is copy number j of record p: a document and one newline, that
\* reads back as p renamed and without parallelism.
CopyOf(text, p, j) ==
  /\ Len(text) >= 1
  /\ text[Len(text)] = NL
  /\ "parallelism" \notin Range(text)
  /\ LET q == Decode(SubSeq(text, 1, Len(text) - 1))
     IN /\ q.ok
        /\ q.kind = p.kind
        /\ q.type_ = p.type_
        /\ q.extra = p.extra
        /\ q.parallelism = None
        /\ NameIs(q.name, p.name, j)

\* Every piece of r that decodes can be re-encoded under any instance name.
AllEncodable(r) ==
  \A k \in 1..Len(docs[r]) : Decode(docs[r][k]).ok => ~EncodeFails(Decode(docs[r][k]))

\* -------------------------------------------------------------------- C1
\* C1: a finished piece that decodes with parallelism = v, 0 < v <= 64, has
\* contributed exactly v texts; text j is a copy of the decoded record named
\* <orig>-<j>, without a parallelism key, with the same kind, type and extra
\* entries, the extra keys in the order of the source text.
C1_FanOut ==
  \A r \in Requests : \A k \in 1..n[r] :
    LET d == docs[r][k]
        p == Decode(d)
    IN (p.ok /\ p.parallelism # None /\ p.parallelism[1] \in 1..PARALLELISM_MAX) =>
         LET cs == ChunksOf(r, k)
         IN /\ Len(cs) = p.parallelism[1]
            /\ \A j \in 1..Len(cs) :
                 CopyOf(cs[j], p, j) /\ ExtraKeysOf(cs[j]) = ExtraKeysOf(d)

C1_Witness ==
  \E r \in Requests :
    /\ RepliedOk(r)
    /\ \E k1, k2 \in 1..n[r] :
         /\ Fans(docs[r][k1], PARALLELISM_MAX)
         /\ Fans(docs[r][k2], 2)
         /\ Len(ExtraKeysOf(docs[r][k2])) >= 2
         /\ Len(ChunksOf(r, k2)) = 2

\* -------------------------------------------------------------------- C2
\* C2: a finished piece that lacks kind, name or type, or fails to decode
\* for any other reason, has contributed its own text and nothing else; a
\* request is never failed at a piece that does not decode; and every
\* finished piece has contributed what it contributes as a request body of
\* its own.
C2_Passthrough ==
  \A r \in Requests :
    /\ \A k \in 1..n[r] :
         LET d == docs[r][k]
         IN /\ (\E key \in RequiredKeys : key \notin Range(d)) => ChunksOf(r, k) = <<d>>
            /\ ~Decode(d).ok => ChunksOf(r, k) = <<d>>
            /\ [j \in 1..Len(ChunksOf(r, k)) |-> [doc |-> 1, text |-> ChunksOf(r, k)[j]]]
                 = convert_handler(d).chunks
    /\ err[r] = Rejected("Error") => Decode(docs[r][n[r] + 1]).ok

C2_Witness ==
  \E r \in Requests :
    /\ RepliedOk(r)
    /\ \E k1, k2, k3 \in 1..n[r] :
         /\ docs[r][k1] = DocNoKind
         /\ docs[r][k2] = DocGarbage
         /\ Fans(docs[r][k3], 2)
         /\ ChunksOf(r, k1) = <<DocNoKind>>

\* -------------------------------------------------------------------- C3
\* C3: a finished piece that decodes and has no parallelism has contributed
\* its own text and nothing else.
C3_NoParallelism ==
  \A r \in Requests : \A k \in 1..n[r] :
    LET d == docs[r][k]
    IN (Decode(d).ok /\ "parallelism" \notin Range(d)) => ChunksOf(r, k) = <<d>>

\* A passed-through piece whose re-encoding would differ from its text.
C3_Witness ==
  \E r \in Requests :
    /\ RepliedOk(r)
    /\ \E k \in 1..n[r] :
         /\ Decode(docs[r][k]).ok
         /\ Decode(docs[r][k]).parallelism = None
         /\ ToYaml(Decode(docs[r][k])).ok
         /\ ToYaml(Decode(docs[r][k])).text # docs[r][k]
         /\ ChunksOf(r, k) = <<docs[r][k]>>

\* -------------------------------------------------------------------- C4
\* The text d with the value of its parallelism line replaced by v.
WithParallelism(d, v) ==
  Join([j \in 1..Len(Lines(d)) |->
          IF Len(Lines(d)[j]) >= 2 /\ Lines(d)[j][1] = "parallelism"
          THEN EntryLine("parallelism", v) ELSE Lines(d)[j]],
       <<NL>>)

\* C4: a finished piece that decodes with parallelism above 64 has
\* contributed exactly 64 copies named <orig>-1 .. <orig>-64, the very texts
\* that the same piece with parallelism = 64 contributes (in this request,
\* when it holds that piece too, and as a request body of its own); and the
\* request is answered with 200 when no piece fails to re-encode.
C4_Clamping ==
  \A r \in Requests :
    /\ \A k \in 1..n[r] :
         LET d == docs[r][k]
             p == Decode(d)
             d64 == WithParallelism(d, Decimal(PARALLELISM_MAX))
         IN (p.ok /\ p.parallelism # None /\ p.parallelism[1] > PARALLELISM_MAX) =>
              LET cs == ChunksOf(r, k)
              IN /\ Len(cs) = PARALLELISM_MAX
                 /\ \A j \in 1..Len(cs) : CopyOf(cs[j], p, j)
                 /\ \A k2 \in 1..n[r] : docs[r][k2] = d64 => ChunksOf(r, k2) = cs
                 /\ Fans(d64, PARALLELISM_MAX)
                 /\ ResultText(convert_handler(d64).chunks) = Concat(cs)
    /\ (/\ pc[r] = "replied"
        /\ Filter(http[r]) = NoRejection
        /\ AllEncodable(r)
        /\ \E k \in 1..Len(docs[r]) :
             Decode(docs[r][k]).ok /\ Decode(docs[r][k]).parallelism # None
             /\ Decode(docs[r][k]).parallelism[1] > PARALLELISM_MAX)
       => reply[r].code = 200

\* parallelism = 1000 and parallelism = 64 in one request, both finished.
C4_Witness ==
  \E r \in Requests :
    /\ RepliedOk(r)
    /\ \E k1, k2 \in 1..n[r] :
         /\ Fans(docs[r][k1], 1000)
         /\ Fans(docs[r][k2], PARALLELISM_MAX)
         /\ docs[r][k2] = WithParallelism(docs[r][k1], Decimal(PARALLELISM_MAX))
         /\ ChunksOf(r, k1) = ChunksOf(r, k2)
         /\ Len(ChunksOf(r, k1)) = PARALLELISM_MAX

\* -------------------------------------------------------------------- C5
\* C5: a finished piece that decodes with parallelism = 0 has contributed
\* nothing, neither a copy nor its own text; a request that is only such a
\* piece is answered with 200 and the empty text.
C5_Deletion ==
  \A r \in Requests :
    /\ \A k \in 1..n[r] : Fans(docs[r][k], 0) => ChunksOf(r, k) = <<>>
    /\ (pc[r] = "replied" /\ Len(docs[r]) = 1 /\ Fans(docs[r][1], 0))
       => reply[r] = [code |-> 200, json |-> [data |-> <<>>]]
    /\ (pc[r] = "replied" /\ Filter(http[r]) = NoRejection /\ AllEncodable(r))
       => reply[r].code = 200

\* A parallelism = 0 piece between two pieces that do contribute.
C5_Witness ==
  \E r \in Requests :
    /\ RepliedOk(r)
    /\ Len(docs[r]) = 3
    /\ Fans(docs[r][2], 0)
    /\ ChunksOf(r, 1) # <<>>
    /\ ChunksOf(r, 2) = <<>>
    /\ ChunksOf(r, 3) # <<>>

\* -------------------------------------------------------------------- C6
\* The request of the spec's example: build with parallelism = 2, garbage,
\* deploy without parallelism.
ExampleInput == Join(<<DocBuild, DocGarbage, DocDeploy>>, Separator)

ExampleCopy(number) ==
  Doc(<<<<Dash, Dash, Dash>>,
        EntryLine("kind", <<"pipeline">>),
        EntryLine("name", <<"build", Dash, number>>),
        EntryLine("type", <<"docker">>),
        EntryLine("steps", <<"test">>),
        EntryLine("image", <<"rust">>)>>) \o <<NL>>

ExampleOutput == ExampleCopy("1") \o ExampleCopy("2") \o DocGarbage \o DocDeploy

\* C6: the texts in the result stand in the order of their pieces; the text
\* returned is the contributions of piece 1, 2, ... one after the other with
\* nothing between them; and the example request returns the copies build-1
\* and build-2, the garbage text and the deploy document, in that order.
C6_Composition ==
  \A r \in Requests :
    /\ \A j \in 1..Len(result[r]) - 1 : result[r][j].doc <= result[r][j + 1].doc
    /\ RepliedOk(r) =>
         reply[r].json.data
           = Concat([k \in 1..Len(docs[r]) |-> Concat(ChunksOf(r, k))])
    /\ (pc[r] = "replied" /\ http[r] = Post(ExampleInput)) =>
         reply[r] = [code |-> 200, json |-> [data |-> ExampleOutput]]

C6_Witness ==
  \E r \in Requests :
    /\ RepliedOk(r)
    /\ http[r] = Post(ExampleInput)
    /\ docs[r] = <<DocBuild, DocGarbage, DocDeploy>>
    /\ reply[r].json.data = ExampleOutput

\* -------------------------------------------------------------------- C7
\* The handler returned the encode-failure rejection.
HandlerFailed(r) == err[r] = Rejected("Error")

\* C7: once to_string has failed the handler is over: the request is
\* rejected or answered, the failed copy is the one the loop stood at,
\* nothing was appended for it or for a later copy or piece, the answer is
\* 500 with a message and no data; a request with a copy that cannot be
\* re-encoded is never answered with 200; and a request the filters accept
\* is answered with anything but 200 only after such a failure.
C7_EncodeFailure ==
  \A r \in Requests :
    /\ HandlerFailed(r) =>
         /\ pc[r] \in {"rejected", "replied"}
         /\ n[r] < Len(docs[r])
         /\ i[r] \in 1..value[r]
         /\ ~ToYaml(Instance(parsed[r], i[r])).ok
         /\ Len(ChunksOf(r, n[r] + 1)) = i[r] - 1
         /\ \A j \in 1..Len(result[r]) : result[r][j].doc <= n[r] + 1
         /\ pc[r] = "replied" =>
              reply[r] = [code |-> 500, json |-> [message |-> "Internal Server Error"]]
    /\ (/\ pc[r] = "replied"
        /\ Filter(http[r]) = NoRejection
        /\ \E k \in 1..Len(docs[r]) :
             /\ Decode(docs[r][k]).ok
             /\ Decode(docs[r][k]).parallelism # None
             /\ \E j \in 1..Clamp(Decode(docs[r][k]).parallelism[1]) :
                  ~ToYaml(Instance(Decode(docs[r][k]), j)).ok)
       => reply[r].code = 500
    /\ (pc[r] = "replied" /\ Filter(http[r]) = NoRejection /\ reply[r].code # 200)
       => HandlerFailed(r)

\* An encode failure in the second of three pieces, text already in the result.
C7_Witness ==
  \E r \in Requests :
    /\ pc[r] = "replied"
    /\ HandlerFailed(r)
    /\ Len(docs[r]) = 3
    /\ n[r] = 1
    /\ result[r] # <<>>
    /\ reply[r].code = 500

\* -------------------------------------------------------------------- C8
\* C8: whatever the interleaving, the result of each request in flight is
\* at every moment an initial part of the result it builds when served
\* alone, and its answer is the answer it gets when served alone.
C8_Independent ==
  \A r \in Requests :
    /\ IsPrefix(result[r], convert_handler(http[r].data).chunks)
    /\ pc[r] = "replied" => reply[r] = Response(http[r])

\* Two requests with different bodies, both inside their fan-out loops with
\* text already appended.
C8_Witness ==
  \E r1, r2 \in Requests :
    /\ r1 # r2
    /\ http[r1].data # http[r2].data
    /\ pc[r1] = "fan"
    /\ pc[r2] = "fan"
    /\ result[r1] # <<>>
    /\ result[r2] # <<>>

\* -------------------------------------------------------------------- C9
\* C9: a rejection is answered with one status and a JSON object that holds
\* a message and nothing else: not found 404, body deserialize error 400,
\* the handler's error 500, method not allowed 405, any other cause 500;
\* and a pending rejection can always be answered.
C9_Rejections ==
  \A r \in Requests :
    /\ pc[r] = "rejected" => ENABLED Recover(r)
    /\ (pc[r] = "replied" /\ err[r] # NoRejection) =>
         /\ DOMAIN reply[r].json = {"message"}
         /\ reply[r].code =
              (IF err[r] = NotFound THEN 404
               ELSE IF err[r] = Rejected("BodyDeserializeError") THEN 400
               ELSE IF err[r] = Rejected("Error") THEN 500
               ELSE IF err[r] = Rejected("MethodNotAllowed") THEN 405
               ELSE 500)
    /\ (pc[r] = "replied" /\ http[r].method # "POST") => reply[r].code = 405
    /\ (pc[r] = "replied" /\ http[r].method = "POST" /\ http[r].path # "convert")
       => reply[r].code = 404

C9_Witness ==
  \E r \in Requests :
    /\ pc[r] = "replied"
    /\ err[r] = Rejected("MethodNotAllowed")
    /\ reply[r] = [code |-> 405, json |-> [message |-> "Method Not Allowed"]]

\* ------------------------------------------------------------------- C10
RECURSIVE WithoutSeparators(_)
\* The text read left to right with every separator met left out.
WithoutSeparators(text) ==
  IF text = <<>> THEN <<>>
  ELSE IF MatchAt(text, Separator, 1)
  THEN WithoutSeparators(SubSeq(text, Len(Separator) + 1, Len(text)))
  ELSE <<Head(text)>> \o WithoutSeparators(Tail(text))

AllPassedThrough(r) ==
  \A k \in 1..Len(docs[r]) :
    ~Decode(docs[r][k]).ok \/ Decode(docs[r][k]).parallelism = None

\* C10: when every piece of a request is passed through, the text returned
\* is the request body without its separators, which is the pieces one
\* after the other; it is the body itself exactly when the body holds no
\* separator, and the empty body returns the empty text.
C10_SeparatorDropped ==
  \A r \in Requests :
    (RepliedOk(r) /\ AllPassedThrough(r)) =>
      /\ reply[r].json.data = WithoutSeparators(http[r].data)
      /\ reply[r].json.data = Concat(docs[r])
      /\ (reply[r].json.data = http[r].data) <=> (Find(http[r].data, Separator) = 0)
      /\ Len(reply[r].json.data) = Len(http[r].data) - Len(Separator) * (Len(docs[r]) - 1)

\* Separators that share a line break: the second one is not split on and
\* stays in the output.
C10_Witness ==
  \E r \in Requests :
    /\ RepliedOk(r)
    /\ AllPassedThrough(r)
    /\ http[r].data = Join(<<DocTrailingMarker, DocGarbage>>, Separator)
    /\ docs[r] = <<DocGarbage, <<Dash, Dash, Dash, NL>> \o DocGarbage>>
    /\ reply[r].json.data = <<"garbage", Dash, Dash, Dash, NL, "garbage">>
=============================================================================
